---------------------------- MODULE Spec2Model ----------------------------
(***************************************************************************)
(* ImageProjection (src/src/image_projection.cc): one lidar sweep is       *)
(* projected into a range image, ground cells are marked, the remaining    *)
(* cells are clustered by breadth-first region growing, the output clouds  *)
(* and the segmentation record are assembled and published, and the frame  *)
(* state is reset.                                                         *)
(*                                                                         *)
(* Floating-point geometry is carried on integer grids:                    *)
(*   az    atan2(x, y), in units of a quarter of the column resolution     *)
(*         ang_res_x, so that 360 degrees are 4 * HORIZON_SCAN units;      *)
(*   vb    (vertical_angle + ang_bottom) / ang_res_y, in half rows;        *)
(*   rad   sqrt(x*x + y*y), z the height; a range is kept as its square    *)
(*         rad*rad + z*z, which every comparison of the code can be        *)
(*         stated on.                                                      *)
(* The two points of a ground pair lie in one column; their horizontal     *)
(* displacement is taken along the column's ray.                           *)
(***************************************************************************)
EXTENDS Integers, Sequences, FiniteSets, TLC

\* ------------------------------------------------------------ constants

\* Rows and columns of the range image (16 x 1800 in deployment).
N_SCAN == 4
HORIZON_SCAN == 12
\* Frames delivered to one process.
MaxFrames == 2

\* Configuration of utility.h, scaled to the grid: rows 0..groundScanInd are
\* the ground-candidate rows; a cluster below segmentBigPointNum cells needs
\* segmentValidPointNum cells and segmentValidLineNum counted rows.
groundScanInd == 2
segmentValidPointNum == 5
segmentValidLineNum == 3
\* The size from which a cluster is feasible whatever its rows.
segmentBigPointNum == 30
\* Columns kept of a ground row and sampled of a rejected cluster: every 5th.
DownsampleStep == 5
\* Margin of the per-ring start and end index.
RingMargin == 5

LABEL_INIT == 0
LABEL_INVALID == 999999
\* The empty-cell sentinel of range_mat, above every squared range.
FLT_MAX == 1000000
\* FLAGS_sensor_minimum_range. FLAGS_sensor_mount_angle is 0 degrees.
sensor_minimum_range == 2

\* size_t is unsigned and 64 bits wide; the model keeps 30 bits, far above
\* every index of the grid.
SizeTMod == 2 ^ 30

Rows == 0 .. (N_SCAN - 1)
Cols == 0 .. (HORIZON_SCAN - 1)
Cells == Rows \X Cols
Indices == 0 .. (N_SCAN * HORIZON_SCAN - 1)

\* 180 degrees in az units.
HalfTurn == 2 * HORIZON_SCAN

\* static constexpr int8_t dirs[4][2]
dirs == << <<-1, 0>>, <<0, 1>>, <<0, -1>>, <<1, 0>> >>

\* ------------------------------------------------------------ points

Pt(az, vb, ring, rad, z) ==
  [nan |-> FALSE, az |-> az, vb |-> vb, ring |-> ring, rad |-> rad, z |-> z,
   intensity |-> 0]

\* nan_point(quiet_NaN(), quiet_NaN(), quiet_NaN(), -1)
nan_point ==
  [nan |-> TRUE, az |-> 0, vb |-> 0, ring |-> 0, rad |-> 0, z |-> 0,
   intensity |-> -1]

IsNaN(p) == p.nan

\* range * range of a point: x*x + y*y + z*z.
RangeSq(p) == p.rad * p.rad + p.z * p.z

Max(a, b) == IF a >= b THEN a ELSE b
Min(a, b) == IF a <= b THEN a ELSE b

\* C's conversion of a real to an integer type truncates toward zero.
TruncDiv(n, d) == IF n >= 0 THEN n \div d ELSE -((-n) \div d)

\* round(): to the nearest integer, halves away from zero.
RoundDiv(n, d) ==
  IF n >= 0 THEN (2 * n + d) \div (2 * d) ELSE -((2 * (-n) + d) \div (2 * d))

\* The ways a build converts a negative real to size_t, which the language
\* leaves undefined: modulo 2^64 (x86-64) or saturated to 0 (AArch64).
Conversions == {"wrap", "saturate"}

\* float -> size_t of the real whose truncation is t.
FloatToSizeT(t, conv) ==
  IF t >= 0 THEN t % SizeTMod
  ELSE IF conv = "wrap" THEN (SizeTMod + t) % SizeTMod ELSE 0


\* ---------------------------------------------------- CopyPointCloud

\* pcl::removeNaNFromPointCloud
RemoveNaN(pts) == SelectSeq(pts, LAMBDA p : ~IsNaN(p))

\* is_dense of the ring cloud converted from the message.
IsDense(pts) == \A k \in 1 .. Len(pts) : ~IsNaN(pts[k])

\* ---------------------------------------------------- FindStartEndAngle

\* orientationDiff, in az units: atan2(back) + 2*pi - atan2(front).
OrientationDiff(front, back) == (back.az + 2 * HalfTurn) - front.az

\* A variant with the upper CHECK left out.
SpanChecksPass_LowerOnly(diff) == diff > HalfTurn

\* The two CHECKs: the span is strictly inside (pi, 3*pi).
SpanChecksPass(diff) == diff < 3 * HalfTurn /\ diff > HalfTurn

\* ---------------------------------------------------- ProjectPointCloud

\* size_t row_idn: the ring, or the vertical bucket converted to size_t.
RowIdn(p, ring_mode, conv) ==
  IF ring_mode THEN p.ring ELSE FloatToSizeT(TruncDiv(p.vb, 2), conv)

\* -round((horizon_angle - 90) / ang_res_x) + HORIZON_SCAN / 2, as a real.
ColumnReal(p) == -RoundDiv(p.az - HORIZON_SCAN, 4) + HORIZON_SCAN \div 2

\* size_t column_idn after the single correcting subtraction.
ColumnIdn(p, conv) ==
  LET c == FloatToSizeT(ColumnReal(p), conv)
  IN  IF c >= HORIZON_SCAN THEN c - HORIZON_SCAN ELSE c

\* Whether the loop body reaches its writes for point p.
RowKept(row) == ~(row >= N_SCAN)
ColumnKept(col) == ~(col >= HORIZON_SCAN)
\* A variant without the minimum-range test.
RangeKept_Always(p) == TRUE

RangeKept(p) == ~(RangeSq(p) < sensor_minimum_range * sensor_minimum_range)

\* this_point.intensity = row + col / 10000, in units of 1/10000.
EncodeIntensity(row, col) == row * 10000 + col

\* One iteration of the loop, on point pts[st.i]; st holds the loop variable,
\* the three stores and the indices the iterations used.
ProjectPoint(pts, st, ring_mode, conv) ==
  LET p == pts[st.i]
      row == RowIdn(p, ring_mode, conv)
      col == ColumnIdn(p, conv)
      index == col + row * HORIZON_SCAN
      this_point == [p EXCEPT !.intensity = EncodeIntensity(row, col)]
  IN  IF ~RowKept(row) \/ ~ColumnKept(col) \/ ~RangeKept(p)
        THEN [st EXCEPT !.i = @ + 1]
        ELSE [i |-> st.i + 1,
              rm |-> [st.rm EXCEPT ![<<row, col>>] = RangeSq(p)],
              fc |-> [st.fc EXCEPT ![index] = this_point],
              fic |-> [st.fic EXCEPT ![index] =
                         [this_point EXCEPT !.intensity = RangeSq(p)]],
              cells |-> st.cells \cup {<<row, col>>},
              idx |-> st.idx \cup {index},
              wrote |-> st.wrote \cup {st.i}]

RECURSIVE ProjectFrom(_, _, _, _)
ProjectFrom(pts, st, ring_mode, conv) ==
  IF st.i > Len(pts) THEN st
  ELSE ProjectFrom(pts, ProjectPoint(pts, st, ring_mode, conv), ring_mode, conv)

ProjectPointCloud(pts, rm, fc, fic, ring_mode, conv) ==
  ProjectFrom(pts,
              [i |-> 1, rm |-> rm, fc |-> fc, fic |-> fic, cells |-> {},
               idx |-> {}, wrote |-> {}],
              ring_mode, conv)

\* ---------------------------------------------------- GroundRemoval

\* fabs(angle - FLAGS_sensor_mount_angle) <= 10 for the vector from lower to
\* upper, angle = atan2(diffz, sqrt(diffx^2 + diffy^2)) in degrees and a
\* mount angle of 0: diffz^2 <= tan(10 deg)^2 * (diffx^2 + diffy^2).
SlopeWithinTen(upper, lower) ==
  LET diffz == upper.z - lower.z
      diffh == upper.rad - lower.rad
  IN  diffz * diffz * 1000000 <= 31091 * diffh * diffh

\* Iteration i of the first loop, all columns j.
GroundRow(fc, gm, i) ==
  LET lower(j) == fc[j + i * HORIZON_SCAN]
      upper(j) == fc[j + (i + 1) * HORIZON_SCAN]
      missing(j) == IsNaN(lower(j)) \/ IsNaN(upper(j))
  IN  [cell \in DOMAIN gm |->
         LET j == cell[2]
         IN  IF cell[1] = i /\ missing(j) THEN -1
             ELSE IF cell[1] \in {i, i + 1} /\ ~missing(j)
                     /\ SlopeWithinTen(upper(j), lower(j)) THEN 1
             ELSE gm[cell]]

RECURSIVE GroundRows(_, _, _)
GroundRows(fc, gm, i) ==
  IF ~(i < groundScanInd) THEN gm
  ELSE GroundRows(fc, GroundRow(fc, gm, i), i + 1)

\* A variant of the second loop that excludes the ground cells only.
GroundLabels_GroundOnly(gm, rm, lm) ==
  [cell \in DOMAIN lm |-> IF gm[cell] = 1 THEN -1 ELSE lm[cell]]

\* The second loop: ground and empty cells are excluded from segmentation.
GroundLabels(gm, rm, lm) ==
  [cell \in DOMAIN lm |->
     IF gm[cell] = 1 \/ rm[cell] = FLT_MAX THEN -1 ELSE lm[cell]]

\* The third loop: the ground cells of rows 0..groundScanInd, row-major.
RECURSIVE GroundCloudFrom(_, _, _)
GroundCloudFrom(fc, gm, k) ==
  IF ~(k \div HORIZON_SCAN <= groundScanInd) \/ k \notin DOMAIN fc THEN << >>
  ELSE (IF gm[<<k \div HORIZON_SCAN, k % HORIZON_SCAN>>] = 1
          THEN <<fc[k]>> ELSE << >>)
       \o GroundCloudFrom(fc, gm, k + 1)

GroundRemoval(fc, rm, gm, lm) ==
  LET gm2 == GroundRows(fc, gm, 0)
  IN  [gm |-> gm2,
       lm |-> GroundLabels(gm2, rm, lm),
       gc |-> GroundCloudFrom(fc, gm2, 0),
       cells |-> ((0 .. groundScanInd) \X Cols) \cup Cells,
       idx |-> {j + i * HORIZON_SCAN : i \in 0 .. groundScanInd, j \in Cols}]

\* ---------------------------------------------------- LabelComponents

\* (cos(alpha) + sin(alpha) / tan(segmentTheta))^2 as <<numerator,
\* denominator>>, for alpha = segmentAlphaX (a column step) and
\* segmentAlphaY (a row step), segmentTheta = 60 degrees.
AdmitRatioSq(column_step) ==
  IF column_step THEN <<1004, 1000>> ELSE <<1040, 1000>>

\* angle > segmentTheta, angle = atan2(d2 * sin(alpha), d1 - d2 * cos(alpha))
\* with [d2, d1] = minmax of the two ranges: for 0 < d2 <= d1 the angle lies
\* in (0, 90 degrees) and exceeds segmentTheta exactly when
\* d1 / d2 < cos(alpha) + sin(alpha) / tan(segmentTheta); for d2 = 0 it is 0.
AngleAboveTheta(from_sq, this_sq, column_step) ==
  LET d1 == Max(from_sq, this_sq)
      d2 == Min(from_sq, this_sq)
      k == AdmitRatioSq(column_step)
  IN  d1 * k[2] < d2 * k[1]

\* A variant that also keeps the fill out of the top row.
RowOutside_TopClosed(this_indX) == this_indX < 0 \/ this_indX >= N_SCAN - 1

\* if (this_indX < 0 || this_indX >= N_SCAN) continue;
RowOutside(this_indX) == this_indX < 0 \/ this_indX >= N_SCAN

\* A variant that stops at the first and last column instead of wrapping.
WrapColumn_Clamp(this_indY) ==
  IF this_indY < 0 THEN 0
  ELSE IF this_indY >= HORIZON_SCAN THEN HORIZON_SCAN - 1 ELSE this_indY

\* if (this_indY < 0) this_indY = HORIZON_SCAN - 1;
\* if (this_indY >= HORIZON_SCAN) this_indY = 0;
WrapColumn(this_indY) ==
  LET y == IF this_indY < 0 THEN HORIZON_SCAN - 1 ELSE this_indY
  IN  IF y >= HORIZON_SCAN THEN 0 ELSE y

\* A variant that labels a cell only when it is taken off the queue.
LabelOnPush_Skip(lm, cell, lc) == lm

\* label_mat.at<int>(this_indX, this_indY) = label_count, on admission.
LabelOnPush(lm, cell, lc) == [lm EXCEPT ![cell] = lc]

\* Direction i of the for loop, from the cell just taken off the queue.
\* s: q the queue array up to queue_end_ind, start = queue_start_ind, lm the
\* label matrix, flags the rows of line_count_flag set, pushed the
\* all_pushed arrays, edges and cells what the fill stepped over and read.
Expand(s, from, i, rm, lc) ==
  LET this_indX == from[1] + dirs[i][1]
      this_indY == WrapColumn(from[2] + dirs[i][2])
      this == <<this_indX, this_indY>>
  IN  IF RowOutside(this_indX) THEN s
      ELSE IF s.lm[this] # LABEL_INIT
        THEN [s EXCEPT !.cells = @ \cup {this}]
      ELSE IF ~AngleAboveTheta(rm[from], rm[this], dirs[i][1] = 0)
        THEN [s EXCEPT !.cells = @ \cup {this}]
      ELSE [q |-> Append(s.q, this),
            start |-> s.start,
            lm |-> LabelOnPush(s.lm, this, lc),
            flags |-> s.flags \cup {this_indX},
            pushed |-> Append(s.pushed, this),
            edges |-> s.edges \cup {<<from, this>>},
            cells |-> s.cells \cup {this}]

RECURSIVE ExpandAll(_, _, _, _, _)
ExpandAll(s, from, i, rm, lc) ==
  IF i > 4 THEN s ELSE ExpandAll(Expand(s, from, i, rm, lc), from, i + 1, rm, lc)

\* while (queue_size > 0): queue_size is queue_end_ind - queue_start_ind.
RECURSIVE FloodFill(_, _, _)
FloodFill(s, rm, lc) ==
  IF ~(Len(s.q) - s.start > 0) THEN s
  ELSE LET from == s.q[s.start + 1]
           popped == [s EXCEPT !.start = @ + 1,
                               !.lm = [s.lm EXCEPT ![from] = lc],
                               !.cells = @ \cup {from}]
       IN  FloodFill(ExpandAll(popped, from, 1, rm, lc), rm, lc)

\* The acceptance test on all_pushed_ind_size and the counted rows.
FeasibleSegment(all_pushed_ind_size, line_count) ==
  \/ all_pushed_ind_size >= segmentBigPointNum
  \/ /\ all_pushed_ind_size >= segmentValidPointNum
     /\ line_count >= segmentValidLineNum

\* A variant that returns the pushed cells to LABEL_INIT.
RejectSegment_AsInit(lm, pushed) ==
  [cell \in DOMAIN lm |->
     IF \E k \in 1 .. Len(pushed) : pushed[k] = cell THEN LABEL_INIT
     ELSE lm[cell]]

\* A variant that also marks the cells of the segments accepted before.
RejectSegment_WithEarlier(lm, pushed) ==
  [cell \in DOMAIN lm |->
     IF lm[cell] > 0 \/ (\E k \in 1 .. Len(pushed) : pushed[k] = cell)
       THEN LABEL_INVALID
     ELSE lm[cell]]

\* A variant that leaves the provisional id on the seed.
RejectSegment_KeepSeed(lm, pushed) ==
  [cell \in DOMAIN lm |->
     IF \E k \in 2 .. Len(pushed) : pushed[k] = cell THEN LABEL_INVALID
     ELSE lm[cell]]

\* The else branch: every pushed cell is marked LABEL_INVALID.
RejectSegment(lm, pushed) ==
  [cell \in DOMAIN lm |->
     IF \E k \in 1 .. Len(pushed) : pushed[k] = cell THEN LABEL_INVALID
     ELSE lm[cell]]

LabelComponents(row, col, lm, rm, lc) ==
  LET seed == <<row, col>>
      s == FloodFill([q |-> <<seed>>, start |-> 0, lm |-> lm, flags |-> {},
                      pushed |-> <<seed>>, edges |-> {}, cells |-> {}],
                     rm, lc)
      line_count == Cardinality(s.flags)
      feasible_segment == FeasibleSegment(Len(s.pushed), line_count)
  IN  [lm |-> IF feasible_segment THEN s.lm ELSE RejectSegment(s.lm, s.pushed),
       label_count |-> IF feasible_segment THEN lc + 1 ELSE lc,
       seed |-> seed,
       pushed |-> s.pushed,
       queue_end_ind |-> Len(s.q),
       line_count |-> line_count,
       feasible_segment |-> feasible_segment,
       edges |-> s.edges,
       cells |-> s.cells]

\* ---------------------------------------------------- CloudSegmentation

\* The first cell at or after linear position k, row-major, that is still
\* LABEL_INIT; N_SCAN * HORIZON_SCAN when the double loop finds none.
RECURSIVE NextSeed(_, _)
NextSeed(lm, k) ==
  IF k >= N_SCAN * HORIZON_SCAN THEN k
  ELSE IF lm[<<k \div HORIZON_SCAN, k % HORIZON_SCAN>>] = LABEL_INIT THEN k
  ELSE NextSeed(lm, k + 1)

\* A variant of the start index without the margin.
StartRingIndex_NoMargin(size_of_seg_cloud) == size_of_seg_cloud - 1

\* seg_msg.startRingIndex[i] and endRingIndex[i] from size_of_seg_cloud.
StartRingIndex(size_of_seg_cloud) == size_of_seg_cloud - 1 + RingMargin
EndRingIndex(size_of_seg_cloud) == size_of_seg_cloud - 1 - RingMargin

\* A variant that samples the rejected cells of every row.
OutlierSampled_AllRows(i, j) == j % DownsampleStep = 0

\* A rejected cell is sampled into the outlier cloud.
OutlierSampled(i, j) == i > groundScanInd /\ j % DownsampleStep = 0

\* A variant that thins the ground at the sweep edges as well.
GroundSkipped_NoEdges(j) == j % DownsampleStep # 0

\* A ground cell is skipped: j%5 != 0 && j > 5 && j < HORIZON_SCAN-5.
GroundSkipped(j) == j % DownsampleStep # 0 /\ j > 5 /\ j < HORIZON_SCAN - 5

\* Cell a.k (row-major) of the second double loop; a holds the position,
\* size_of_seg_cloud, the clouds built so far and the arrays of seg_msg.
AssembleCell(a, lm, gm, rm, fc) ==
  LET i == a.k \div HORIZON_SCAN
      j == a.k % HORIZON_SCAN
      cell == <<i, j>>
      a1 == IF j = 0
              THEN [a EXCEPT !.start = [@ EXCEPT ![i] = StartRingIndex(a.size)]]
              ELSE a
      a2 == IF lm[cell] > 0 \/ gm[cell] = 1
              THEN IF lm[cell] = LABEL_INVALID
                     THEN IF OutlierSampled(i, j)
                            THEN [a1 EXCEPT !.out = Append(@, fc[j + i * HORIZON_SCAN]),
                                            !.idx = @ \cup {j + i * HORIZON_SCAN}]
                            ELSE a1
                   ELSE IF gm[cell] = 1 /\ GroundSkipped(j) THEN a1
                   ELSE [a1 EXCEPT
                           !.flag = [@ EXCEPT ![a1.size] = (gm[cell] = 1)],
                           !.colind = [@ EXCEPT ![a1.size] = j],
                           !.range = [@ EXCEPT ![a1.size] = rm[cell]],
                           !.seg = Append(@, fc[j + i * HORIZON_SCAN]),
                           !.idx = @ \cup {j + i * HORIZON_SCAN},
                           !.slots = @ \cup {a1.size},
                           !.size = @ + 1]
              ELSE a1
      a3 == IF j = HORIZON_SCAN - 1
              THEN [a2 EXCEPT !.end = [@ EXCEPT ![i] = EndRingIndex(a2.size)]]
              ELSE a2
  IN  [a3 EXCEPT !.k = @ + 1]

RECURSIVE AssembleFrom(_, _, _, _, _)
AssembleFrom(a, lm, gm, rm, fc) ==
  IF a.k >= N_SCAN * HORIZON_SCAN THEN a
  ELSE AssembleFrom(AssembleCell(a, lm, gm, rm, fc), lm, gm, rm, fc)

\* The third double loop: the accepted cells, intensity set to the label.
RECURSIVE PureFrom(_, _, _)
PureFrom(k, lm, fc) ==
  IF k >= N_SCAN * HORIZON_SCAN THEN << >>
  ELSE LET cell == <<k \div HORIZON_SCAN, k % HORIZON_SCAN>>
       IN  (IF lm[cell] > 0 /\ lm[cell] # LABEL_INVALID
              THEN << [fc[k] EXCEPT !.intensity = lm[cell]] >> ELSE << >>)
           \o PureFrom(k + 1, lm, fc)

\* CloudSegmentation after its labeling loop.
AssembleClouds(lm, gm, rm, fc, msg, outlier, segmented, pure) ==
  LET a == AssembleFrom([k |-> 0, size |-> 0, seg |-> segmented,
                         out |-> outlier,
                         start |-> msg.startRingIndex,
                         end |-> msg.endRingIndex,
                         flag |-> msg.segmentedCloudGroundFlag,
                         colind |-> msg.segmentedCloudColInd,
                         range |-> msg.segmentedCloudRange,
                         idx |-> {}, slots |-> {}],
                        lm, gm, rm, fc)
  IN  [seg_msg |-> [msg EXCEPT !.startRingIndex = a.start,
                               !.endRingIndex = a.end,
                               !.segmentedCloudGroundFlag = a.flag,
                               !.segmentedCloudColInd = a.colind,
                               !.segmentedCloudRange = a.range],
       segmented_cloud |-> a.seg,
       outlier_cloud |-> a.out,
       segmented_cloud_pure |-> pure \o PureFrom(0, lm, fc),
       size_of_seg_cloud |-> a.size,
       cells |-> Cells,
       idx |-> a.idx \cup {k \in Indices :
                 LET c == <<k \div HORIZON_SCAN, k % HORIZON_SCAN>>
                 IN  lm[c] > 0 /\ lm[c] # LABEL_INVALID},
       slots |-> a.slots]

\* ---------------------------------------------------- input frames

\* The azimuth of the middle of column c, in [-HalfTurn, HalfTurn].
AzOfCol(c) ==
  LET az == HORIZON_SCAN + 4 * (HORIZON_SCAN \div 2) - 4 * c
  IN  IF az > HalfTurn THEN az - 2 * HalfTurn ELSE az

\* What a scene puts in cell (r, c): "E" nothing, "N" a near wall, "F" a far
\* wall, "G" flat ground.
CellPoint(kind, r, c) ==
  CASE kind = "N" -> Pt(AzOfCol(c), 2 * r + (c % 2), r, 20, r)
    [] kind = "F" -> Pt(AzOfCol(c), 2 * r + (c % 2), r, 40, r)
    [] kind = "G" -> Pt(AzOfCol(c), 2 * r + (c % 2), r, 10 * (r + 1), -2)
    [] OTHER -> Pt(0, 0, 0, -1, 0)

\* A scene: a background bg, and an object fg on rows r0..r1 of the w columns
\* from c0 (wrapping), its last row extended by foot more columns.
InShape(sc, r, c) ==
  LET d == (c - sc.c0) % HORIZON_SCAN
  IN  \/ r \in sc.r0 .. sc.r1 /\ d < sc.w
      \/ r = sc.r1 /\ d >= sc.w /\ d < sc.w + sc.foot

KindAt(sc, r, c) == IF InShape(sc, r, c) THEN sc.fg ELSE sc.bg

\* The points of a scene in sweep order: by column, then by row.
SceneFrame(sc) ==
  SelectSeq([k \in 1 .. N_SCAN * HORIZON_SCAN |->
               LET c == (k - 1) \div N_SCAN
                   r == (k - 1) % N_SCAN
               IN  CellPoint(KindAt(sc, r, c), r, c)],
            LAMBDA p : p.rad >= 0)

StartCols == {0, 5, HORIZON_SCAN - 1}

Scenes ==
  {[bg |-> bg, fg |-> fg, r0 |-> r0, r1 |-> r1, c0 |-> c0, w |-> w,
    foot |-> foot] :
     bg \in {"E", "F", "G"}, fg \in {"N", "E"}, r0 \in Rows, r1 \in Rows,
     c0 \in StartCols, w \in {1, 2, 3}, foot \in {0, 2}}

Scene(bg, fg, r0, r1, c0, w, foot) ==
  [bg |-> bg, fg |-> fg, r0 |-> r0, r1 |-> r1, c0 |-> c0, w |-> w,
   foot |-> foot]

\* Points that fall outside the grid, below the minimum range, or on a cell
\* another point of the frame fills.
StrayPoints ==
  {Pt(AzOfCol(1), -1, 0, 20, 0),
   Pt(AzOfCol(1), -4, N_SCAN, 20, 0),
   Pt(AzOfCol(1), 2 * N_SCAN, N_SCAN, 20, 0),
   Pt(AzOfCol(1), 0, 0, 1, 0),
   Pt(AzOfCol(0), 0, 0, 21, 0),
   Pt(AzOfCol(0), 0, 0, 21, -3),
   Pt(AzOfCol(5), 2, 1, 21, 1),
   nan_point}

InsertAt(pts, k, p) ==
  SubSeq(pts, 1, k - 1) \o <<p>> \o SubSeq(pts, k, Len(pts))

StrayBases ==
  {Scene("F", "N", 0, 1, 5, 2, 0), Scene("G", "N", 1, 3, 5, 1, 0),
   Scene("E", "N", 0, 2, 0, 1, 2), Scene("F", "N", 0, N_SCAN - 1, 5, 2, 0)}

StrayFrames ==
  {InsertAt(SceneFrame(sc), 2, p) : sc \in StrayBases, p \in StrayPoints}

\* The frames one CloudHandler call is checked on: every scene, a wall
\* filling the grid, and the frames with a stray point.
FrameSet ==
  {SceneFrame(sc) : sc \in {x \in Scenes : x.r0 <= x.r1}}
  \cup {SceneFrame(Scene("E", "N", 0, N_SCAN - 1, 0, HORIZON_SCAN, 0))}
  \cup StrayFrames

\* The frames checked with FLAGS_use_cloud_ring set.
RingFrames ==
  StrayFrames \cup {SceneFrame(sc) : sc \in StrayBases}

\* The frames a stream of CloudHandler calls is checked on.
StreamFrames ==
  {<< >>,
   SceneFrame(Scene("E", "N", 0, 2, 0, 1, 2)),
   SceneFrame(Scene("F", "N", 0, 1, 5, 2, 0)),
   SceneFrame(Scene("G", "N", 1, 3, 5, 1, 0)),
   SceneFrame(Scene("G", "E", 2, 2, 0, 3, 0)),
   SceneFrame(Scene("E", "N", 0, 0, 2, 2, 0)),
   SceneFrame(Scene("E", "N", 0, 0, 3, 7, 0)),
   InsertAt(SceneFrame(Scene("E", "N", 0, 1, 5, 2, 0)), 2, nan_point)}

\* ---------------------------------------------------- state

VARIABLES
  pc,                   \* where CloudHandler stands, or "idle"
  use_cloud_ring,       \* FLAGS_use_cloud_ring
  allocated,            \* AllocateMemory has made the clouds
  delivered,            \* frames the reader has handed to CloudHandler
  frame,                \* laser_cloud_msg of the running call
  laser_cloud_in,
  range_mat, ground_mat, label_mat, label_count,
  full_cloud, full_info_cloud,
  ground_cloud, segmented_cloud, segmented_cloud_pure, outlier_cloud,
  seg_msg,
  scan,                 \* position of CloudSegmentation's first double loop
  fill,                 \* the last LabelComponents call: its locals
  used,                 \* the indices the last stage used
  published             \* what PublishCloud wrote last

vars ==
  <<pc, use_cloud_ring, allocated, delivered, frame, laser_cloud_in,
    range_mat, ground_mat, label_mat, label_count, full_cloud,
    full_info_cloud, ground_cloud, segmented_cloud, segmented_cloud_pure,
    outlier_cloud, seg_msg, scan, fill, used, published>>

NoFill ==
  [seed |-> <<0, 0>>, pushed |-> << >>, queue_end_ind |-> 0,
   line_count |-> 0, feasible_segment |-> FALSE, edges |-> {},
   label |-> 0, before |-> << >>]

NoUse == [stage |-> "none", cells |-> {}, idx |-> {}, slots |-> {}, wrote |-> {}]

\* seg_msg before AllocateMemory, and after its Reserve calls.
SegMsgNull ==
  [startOrientation |-> 0, endOrientation |-> 0, orientationDiff |-> 0,
   startRingIndex |-> << >>, endRingIndex |-> << >>,
   segmentedCloudGroundFlag |-> << >>, segmentedCloudColInd |-> << >>,
   segmentedCloudRange |-> << >>]

SegMsgReserved ==
  [startOrientation |-> 0, endOrientation |-> 0, orientationDiff |-> 0,
   startRingIndex |-> [i \in Rows |-> 0], endRingIndex |-> [i \in Rows |-> 0],
   segmentedCloudGroundFlag |-> [k \in Indices |-> FALSE],
   segmentedCloudColInd |-> [k \in Indices |-> 0],
   segmentedCloudRange |-> [k \in Indices |-> 0]]

\* The grids and clouds as ResetParameters leaves them.
ResetRange == [cell \in Cells |-> FLT_MAX]
ResetGround == [cell \in Cells |-> 0]
ResetLabel == [cell \in Cells |-> LABEL_INIT]
ResetCloud == [k \in Indices |-> nan_point]

\* The object as the constructor leaves it: nothing allocated.
Init ==
  /\ pc = "idle"
  /\ use_cloud_ring \in BOOLEAN
  /\ allocated = FALSE
  /\ delivered = 0
  /\ frame = << >>
  /\ laser_cloud_in = << >>
  /\ range_mat = << >> /\ ground_mat = << >> /\ label_mat = << >>
  /\ label_count = 0
  /\ full_cloud = << >> /\ full_info_cloud = << >>
  /\ ground_cloud = << >> /\ segmented_cloud = << >>
  /\ segmented_cloud_pure = << >> /\ outlier_cloud = << >>
  /\ seg_msg = SegMsgNull
  /\ scan = 0
  /\ fill = NoFill
  /\ used = NoUse
  /\ published = << >>

\* An allocated and reset object at the entry of CloudHandler for one frame.
InitFrame ==
  /\ pc = "copy"
  /\ \/ use_cloud_ring = FALSE /\ frame \in FrameSet
     \/ use_cloud_ring = TRUE /\ frame \in RingFrames
  /\ allocated = TRUE
  /\ delivered = MaxFrames
  /\ laser_cloud_in = << >>
  /\ range_mat = ResetRange /\ ground_mat = ResetGround
  /\ label_mat = ResetLabel
  /\ label_count = 1
  /\ full_cloud = ResetCloud /\ full_info_cloud = ResetCloud
  /\ ground_cloud = << >> /\ segmented_cloud = << >>
  /\ segmented_cloud_pure = << >> /\ outlier_cloud = << >>
  /\ seg_msg = SegMsgReserved
  /\ scan = 0
  /\ fill = NoFill
  /\ used = NoUse
  /\ published = << >>

grids == <<range_mat, ground_mat, label_mat, label_count>>
fulls == <<full_cloud, full_info_cloud>>
outs == <<ground_cloud, segmented_cloud, segmented_cloud_pure, outlier_cloud>>
config == <<use_cloud_ring, allocated, delivered>>

\* ---------------------------------------------------- operations

AllocateMemory ==
  /\ pc = "idle" /\ ~allocated
  /\ allocated' = TRUE
  /\ full_cloud' = [k \in Indices |-> Pt(0, 0, 0, 0, 0)]
  /\ full_info_cloud' = [k \in Indices |-> Pt(0, 0, 0, 0, 0)]
  /\ seg_msg' = SegMsgReserved
  /\ UNCHANGED <<pc, use_cloud_ring, delivered, frame, laser_cloud_in, grids,
                 outs, scan, fill, used, published>>

\* Step 7 of CloudHandler, and the reset of a newly allocated object.
ResetParameters ==
  /\ \/ pc = "reset"
     \/ pc = "idle" /\ allocated /\ range_mat = << >>
  /\ pc' = "idle"
  /\ frame' = << >>
  /\ laser_cloud_in' = << >>
  /\ ground_cloud' = << >> /\ segmented_cloud' = << >>
  /\ segmented_cloud_pure' = << >> /\ outlier_cloud' = << >>
  /\ range_mat' = ResetRange
  /\ ground_mat' = ResetGround
  /\ label_mat' = ResetLabel
  /\ label_count' = 1
  /\ full_cloud' = [k \in DOMAIN full_cloud |-> nan_point]
  /\ full_info_cloud' = [k \in DOMAIN full_info_cloud |-> nan_point]
  /\ UNCHANGED <<config, seg_msg, scan, fill, used, published>>

\* A variant in which the callback is entered while a call is running.
Deliver_Unserialized ==
  /\ pc \notin {"crashed", "aborted"} /\ delivered < MaxFrames
  /\ \E f \in StreamFrames : frame' = f
  /\ delivered' = delivered + 1
  /\ pc' = "copy"
  /\ UNCHANGED <<use_cloud_ring, allocated, laser_cloud_in, grids, fulls, outs,
                 seg_msg, scan, fill, used, published>>

\* The reader's callback calls CloudHandler with the next frame.
Deliver ==
  /\ pc = "idle" /\ delivered < MaxFrames
  /\ \E f \in StreamFrames : frame' = f
  /\ delivered' = delivered + 1
  /\ pc' = "copy"
  /\ UNCHANGED <<use_cloud_ring, allocated, laser_cloud_in, grids, fulls, outs,
                 seg_msg, scan, fill, used, published>>

\* Step 1. The clouds are null before AllocateMemory; the ring cloud must be
\* dense when rings are used.
CopyPointCloud ==
  /\ pc = "copy"
  /\ IF ~allocated
       THEN pc' = "crashed" /\ UNCHANGED laser_cloud_in
       ELSE /\ laser_cloud_in' = RemoveNaN(frame)
            /\ pc' = IF use_cloud_ring /\ ~IsDense(frame) THEN "aborted"
                     ELSE "angle"
  /\ UNCHANGED <<config, frame, grids, fulls, outs, seg_msg, scan, fill, used,
                 published>>

SetOrientation(msg, front_az, back_az) ==
  [msg EXCEPT !.startOrientation = front_az,
              !.endOrientation = back_az + 2 * HalfTurn,
              !.orientationDiff = (back_az + 2 * HalfTurn) - front_az]

\* Step 2. front() and back() of an empty cloud are undefined: the call
\* faults, or reads two arbitrary points.
FindStartEndAngle ==
  /\ pc = "angle"
  /\ \/ /\ laser_cloud_in # << >>
        /\ seg_msg' = SetOrientation(seg_msg, laser_cloud_in[1].az,
                                     laser_cloud_in[Len(laser_cloud_in)].az)
        /\ pc' = IF SpanChecksPass(seg_msg'.orientationDiff) THEN "project"
                 ELSE "aborted"
     \/ /\ laser_cloud_in = << >>
        /\ pc' = "crashed"
        /\ UNCHANGED seg_msg
     \/ /\ laser_cloud_in = << >>
        /\ \E a \in {-HalfTurn, 0}, b \in {0, HalfTurn} :
             seg_msg' = SetOrientation(seg_msg, a, b)
        /\ pc' = IF SpanChecksPass(seg_msg'.orientationDiff) THEN "project"
                 ELSE "aborted"
  /\ UNCHANGED <<config, frame, laser_cloud_in, grids, fulls, outs, scan, fill,
                 used, published>>

\* Step 3. at() on the empty matrices of an object never reset faults.
ProjectPointCloudStep ==
  /\ pc = "project"
  /\ IF range_mat = << >>
       THEN pc' = "crashed" /\ UNCHANGED <<range_mat, fulls, used>>
       ELSE \E conv \in Conversions :
              LET st == ProjectPointCloud(laser_cloud_in, range_mat, full_cloud,
                                          full_info_cloud, use_cloud_ring, conv)
              IN  /\ range_mat' = st.rm
                  /\ full_cloud' = st.fc
                  /\ full_info_cloud' = st.fic
                  /\ used' = [stage |-> "project", cells |-> st.cells,
                              idx |-> st.idx, slots |-> {}, wrote |-> st.wrote]
                  /\ pc' = "ground"
  /\ UNCHANGED <<config, frame, laser_cloud_in, ground_mat, label_mat,
                 label_count, outs, seg_msg, scan, fill, published>>

\* Step 4.
GroundRemovalStep ==
  /\ pc = "ground"
  /\ LET g == GroundRemoval(full_cloud, range_mat, ground_mat, label_mat)
     IN  /\ ground_mat' = g.gm
         /\ label_mat' = g.lm
         /\ ground_cloud' = ground_cloud \o g.gc
         /\ used' = [stage |-> "ground", cells |-> g.cells, idx |-> g.idx,
                     slots |-> {}, wrote |-> {}]
  /\ scan' = 0
  /\ fill' = NoFill
  /\ pc' = "label"
  /\ UNCHANGED <<config, frame, laser_cloud_in, range_mat, label_count, fulls,
                 segmented_cloud, segmented_cloud_pure, outlier_cloud, seg_msg,
                 published>>

\* Step 5, first double loop: up to and including the next LabelComponents.
LabelNext ==
  /\ pc = "label"
  /\ LET k == NextSeed(label_mat, scan)
     IN  /\ k < N_SCAN * HORIZON_SCAN
         /\ LET r == LabelComponents(k \div HORIZON_SCAN, k % HORIZON_SCAN,
                                     label_mat, range_mat, label_count)
            IN  /\ label_mat' = r.lm
                /\ label_count' = r.label_count
                /\ fill' = [seed |-> r.seed, pushed |-> r.pushed,
                            queue_end_ind |-> r.queue_end_ind,
                            line_count |-> r.line_count,
                            feasible_segment |-> r.feasible_segment,
                            edges |-> r.edges, label |-> label_count,
                            before |-> label_mat]
                /\ used' = [stage |-> "label", cells |-> r.cells, idx |-> {},
                            slots |-> {}, wrote |-> {}]
         /\ scan' = k + 1
  /\ UNCHANGED <<pc, config, frame, laser_cloud_in, range_mat, ground_mat,
                 fulls, outs, seg_msg, published>>

\* Step 5: the first double loop ends.
LabelDone ==
  /\ pc = "label"
  /\ NextSeed(label_mat, scan) >= N_SCAN * HORIZON_SCAN
  /\ scan' = N_SCAN * HORIZON_SCAN
  /\ pc' = "assemble"
  /\ UNCHANGED <<config, frame, laser_cloud_in, grids, fulls, outs, seg_msg,
                 fill, used, published>>

\* Step 5, second and third double loop.
AssembleStep ==
  /\ pc = "assemble"
  /\ LET a == AssembleClouds(label_mat, ground_mat, range_mat, full_cloud,
                             seg_msg, outlier_cloud, segmented_cloud,
                             segmented_cloud_pure)
     IN  /\ seg_msg' = a.seg_msg
         /\ segmented_cloud' = a.segmented_cloud
         /\ outlier_cloud' = a.outlier_cloud
         /\ segmented_cloud_pure' = a.segmented_cloud_pure
         /\ used' = [stage |-> "assemble", cells |-> a.cells, idx |-> a.idx,
                     slots |-> a.slots, wrote |-> {}]
  /\ pc' = "publish"
  /\ UNCHANGED <<config, frame, laser_cloud_in, grids, fulls, ground_cloud,
                 scan, fill, published>>

\* What PublishCloud writes: seg_msg and the six clouds, stamped with the
\* frame's header.
Publication(stamp, msg, outlier, segmented, fc, fic, ground, pure) ==
  [stamp |-> stamp, seg_msg |-> msg, outlier_cloud |-> outlier,
   segmented_cloud |-> segmented, full_cloud |-> fc, full_info_cloud |-> fic,
   ground_cloud |-> ground, segmented_cloud_pure |-> pure]

\* Step 6.
PublishCloud ==
  /\ pc = "publish"
  /\ published' = << Publication(delivered, seg_msg, outlier_cloud,
                                 segmented_cloud, full_cloud, full_info_cloud,
                                 ground_cloud, segmented_cloud_pure) >>
  /\ pc' = "reset"
  /\ UNCHANGED <<config, frame, laser_cloud_in, grids, fulls, outs, seg_msg,
                 scan, fill, used>>

Handler ==
  \/ CopyPointCloud
  \/ FindStartEndAngle
  \/ ProjectPointCloudStep
  \/ GroundRemovalStep
  \/ LabelNext
  \/ LabelDone
  \/ AssembleStep
  \/ PublishCloud
  \/ ResetParameters

Next == AllocateMemory \/ Deliver \/ Handler

NextFrame == Handler

\* A stream of frames from construction on.
Spec == Init /\ [][Next]_vars

\* One CloudHandler call on an allocated and reset object.
SpecFrame == InitFrame /\ [][NextFrame]_vars

\* ---------------------------------------------------- CloudHandler, whole

\* CloudSegmentation's first double loop, from position k on.
RECURSIVE LabelAll(_, _, _, _)
LabelAll(lm, rm, lc, k) ==
  LET seed == NextSeed(lm, k)
  IN  IF seed >= N_SCAN * HORIZON_SCAN THEN [lm |-> lm, label_count |-> lc]
      ELSE LET r == LabelComponents(seed \div HORIZON_SCAN,
                                    seed % HORIZON_SCAN, lm, rm, lc)
           IN  LabelAll(r.lm, rm, r.label_count, seed + 1)

\* What steps 1 to 6 publish for a non-empty message f stamped stamp, on an
\* object that AllocateMemory and ResetParameters have just prepared.
CloudHandlerFresh(f, ring_mode, conv, stamp) ==
  LET cloud == RemoveNaN(f)
      msg == SetOrientation(SegMsgReserved, cloud[1].az, cloud[Len(cloud)].az)
      p == ProjectPointCloud(cloud, ResetRange, ResetCloud, ResetCloud,
                             ring_mode, conv)
      g == GroundRemoval(p.fc, p.rm, ResetGround, ResetLabel)
      l == LabelAll(g.lm, p.rm, 1, 0)
      a == AssembleClouds(l.lm, g.gm, p.rm, p.fc, msg, << >>, << >>, << >>)
  IN  Publication(stamp, a.seg_msg, a.outlier_cloud, a.segmented_cloud, p.fc,
                  p.fic, g.gc, a.segmented_cloud_pure)

\* ---------------------------------------------------- claims

Labeled == pc \in {"assemble", "publish", "reset"}
Filled == pc \in {"label", "assemble", "publish", "reset"} /\ fill.pushed # << >>
FillCells == {fill.pushed[k] : k \in 1 .. Len(fill.pushed)}
FillRows == {c[1] : c \in FillCells}

\* C1: once CloudSegmentation's labeling loop has finished, no cell of
\* label_mat is LABEL_INIT: each holds -1, LABEL_INVALID, or the id of an
\* accepted segment.
C1_NoCellLeftUnvisited ==
  Labeled =>
    \A cell \in Cells :
      /\ label_mat[cell] # LABEL_INIT
      /\ \/ label_mat[cell] = -1
         \/ label_mat[cell] = LABEL_INVALID
         \/ label_mat[cell] \in 1 .. (label_count - 1)

\* A frame whose labeling left ground or empty cells, a rejected cluster of
\* three cells and an accepted segment.
C1_Witness ==
  /\ Labeled
  /\ \E a \in Cells : label_mat[a] = -1
  /\ \E b \in Cells : label_mat[b] = LABEL_INVALID
  /\ \E c \in Cells : label_mat[c] \in 1 .. (label_count - 1)
  /\ Len(fill.pushed) = 3 /\ ~fill.feasible_segment

\* C2: a flood fill gives its cluster a new id exactly when the cluster has
\* at least 30 cells, or at least segmentValidPointNum cells on at least
\* segmentValidLineNum distinct rows, the seed's row counted; otherwise all
\* its cells become LABEL_INVALID.
C2_AcceptedIffSizeOrRows ==
  Filled =>
    LET valid == \/ Cardinality(FillCells) >= segmentBigPointNum
                 \/ /\ Cardinality(FillCells) >= segmentValidPointNum
                    /\ Cardinality(FillRows) >= segmentValidLineNum
    IN  IF valid
          THEN \A c \in FillCells : label_mat[c] = fill.label
          ELSE \A c \in FillCells : label_mat[c] = LABEL_INVALID

GroundDone == pc \in {"label", "assemble", "publish", "reset"}

\* C3: when GroundRemoval has finished, both cells of every pair of rows
\* (i, i+1), i < groundScanInd, that are non-empty and whose connecting
\* vector is within 10 degrees of the mount angle are marked ground.
C3_QualifyingPairsStayGround ==
  GroundDone =>
    \A i \in 0 .. (groundScanInd - 1), j \in Cols :
      LET lower == full_cloud[j + i * HORIZON_SCAN]
          upper == full_cloud[j + (i + 1) * HORIZON_SCAN]
      IN  (~IsNaN(lower) /\ ~IsNaN(upper) /\ SlopeWithinTen(upper, lower))
            => ground_mat[<<i, j>>] = 1 /\ ground_mat[<<i + 1, j>>] = 1

\* C4: whenever CloudHandler starts on a frame, the first one included, the
\* grids hold their reset values, label_count is 1, the two full clouds hold
\* nan_point everywhere and the other clouds are empty.
C4_HandlerStartsOnResetState ==
  pc = "copy" =>
    /\ range_mat = ResetRange
    /\ ground_mat = ResetGround
    /\ label_mat = ResetLabel
    /\ label_count = 1
    /\ full_cloud = ResetCloud /\ full_info_cloud = ResetCloud
    /\ ground_cloud = << >> /\ segmented_cloud = << >>
    /\ segmented_cloud_pure = << >> /\ outlier_cloud = << >>

\* C5: what is published for a frame is what a newly prepared object would
\* publish for it, whatever frames were processed before.
C5_PublishedDependsOnFrameOnly ==
  (pc = "reset" /\ laser_cloud_in # << >>) =>
    \E conv \in Conversions :
      published[1] = CloudHandlerFresh(frame, use_cloud_ring, conv, delivered)

Assembled == pc \in {"publish", "reset"}

\* The points of row i in segmented_cloud, by the row encoded in intensity.
SegmentedOfRow(i) ==
  Cardinality({k \in 1 .. Len(segmented_cloud) :
                 segmented_cloud[k].intensity \div 10000 = i})

\* C6 as stated: every ring's pair is a non-empty range inside
\* segmented_cloud.
C6_RingRangesNonEmpty ==
  Assembled =>
    \A i \in Rows :
      /\ 0 <= seg_msg.startRingIndex[i]
      /\ seg_msg.startRingIndex[i] <= seg_msg.endRingIndex[i]
      /\ seg_msg.endRingIndex[i] < Len(segmented_cloud)

\* C6, amended: for every ring i, startRingIndex[i] >= 0 and endRingIndex[i]
\* is below the size of segmented_cloud, and the pair is a non-empty range
\* (start <= end) exactly when ring i contributes at least 10 points.
C6_RingRangesWithMargins ==
  Assembled =>
    \A i \in Rows :
      /\ 0 <= seg_msg.startRingIndex[i]
      /\ seg_msg.endRingIndex[i] < Len(segmented_cloud)
      /\ (seg_msg.startRingIndex[i] <= seg_msg.endRingIndex[i])
           <=> (SegmentedOfRow(i) >= 2 * RingMargin)

\* A frame with a ring of at least 10 segmented points and a ring of none.
C6_Witness ==
  /\ Assembled
  /\ \E i \in Rows : seg_msg.startRingIndex[i] <= seg_msg.endRingIndex[i]
  /\ \E i \in Rows : SegmentedOfRow(i) = 0

\* C7: a flood fill steps only between 4-neighbours, the column wrapping and
\* the row not: it examines (r, cols-1) from (r, 0) and (r, 0) from
\* (r, cols-1), no cell outside the grid, and two cells (r, 0), (r, cols-1)
\* both unlabeled before the fill and passing the admission test are both in
\* the fill or both outside it.
C7_ColumnsWrapRowsDoNot ==
  Filled =>
    /\ used.cells \subseteq Cells
    /\ \A e \in fill.edges :
         \/ /\ e[1][1] = e[2][1]
            /\ e[2][2] \in {(e[1][2] + 1) % HORIZON_SCAN,
                            (e[1][2] + HORIZON_SCAN - 1) % HORIZON_SCAN}
         \/ /\ e[1][2] = e[2][2]
            /\ e[2][1] \in {e[1][1] + 1, e[1][1] - 1}
    /\ \A r \in Rows :
         LET a == <<r, 0>>
             b == <<r, HORIZON_SCAN - 1>>
         IN  /\ a \in FillCells => b \in used.cells
             /\ b \in FillCells => a \in used.cells
             /\ ( /\ fill.before[a] = LABEL_INIT
                  /\ fill.before[b] = LABEL_INIT
                  /\ AngleAboveTheta(range_mat[a], range_mat[b], TRUE) )
                  => (a \in FillCells <=> b \in FillCells)

\* A fill that stepped across the seam between column 0 and column cols-1.
C7_Witness ==
  /\ Filled
  /\ \E r \in Rows :
       \/ << <<r, 0>>, <<r, HORIZON_SCAN - 1>> >> \in fill.edges
       \/ << <<r, HORIZON_SCAN - 1>>, <<r, 0>> >> \in fill.edges

\* C8: in every flood fill queue_end_ind and all_pushed_ind_size stay within
\* rows * cols, and a cell is put on the queue at most once in a frame: it is
\* unlabeled when pushed, pushed once in its fill, and labeled afterwards.
C8_QueueWithinGrid ==
  Filled =>
    /\ fill.queue_end_ind <= N_SCAN * HORIZON_SCAN
    /\ Len(fill.pushed) <= N_SCAN * HORIZON_SCAN
    /\ fill.queue_end_ind = Len(fill.pushed)
    /\ Cardinality(FillCells) = Len(fill.pushed)
    /\ \A c \in FillCells :
         fill.before[c] = LABEL_INIT /\ label_mat[c] # LABEL_INIT

\* A fill that put every cell of the grid on the queue.
C8_Witness ==
  Filled /\ fill.queue_end_ind = N_SCAN * HORIZON_SCAN

\* The span of the frame in laser_cloud_in is not strictly inside (pi, 3*pi).
SpanOutside ==
  /\ laser_cloud_in # << >>
  /\ LET diff == laser_cloud_in[Len(laser_cloud_in)].az + 2 * HalfTurn
                 - laser_cloud_in[1].az
     IN  diff >= 3 * HalfTurn \/ diff <= HalfTurn

\* C9: a frame whose span is not strictly inside (pi, 3*pi) is rejected in
\* FindStartEndAngle: that step ends the call leaving the grids, the clouds
\* and what was published as they were, no later step ever runs on the
\* frame, and nothing is published for it.
C9_BadSpanRejected ==
  /\ [](SpanOutside =>
          /\ pc \in {"copy", "angle", "aborted"}
          /\ \A k \in 1 .. Len(published) : published[k].stamp < delivered)
  /\ [][(SpanOutside /\ pc \in {"angle", "aborted"}) =>
          /\ pc' = "aborted"
          /\ UNCHANGED <<grids, fulls, outs, published>>]_vars

\* A second frame rejected for its span after a first one was published.
C9_Witness ==
  SpanOutside /\ pc = "aborted" /\ published # << >>

\* The row and column bucket of p lie in the grid (the column after the one
\* correcting subtraction).
BucketInRange(p) ==
  /\ (IF use_cloud_ring THEN p.ring ELSE TruncDiv(p.vb, 2)) \in Rows
  /\ ColumnReal(p) \in 0 .. (2 * HORIZON_SCAN - 1)

\* C10: every index a stage uses lies in the grid, and ProjectPointCloud
\* writes nothing for a point whose row or column bucket is out of range,
\* negative buckets included.
C10_IndicesInRangeStrayDropped ==
  /\ used.cells \subseteq Cells
  /\ used.idx \subseteq Indices
  /\ used.slots \subseteq Indices
  /\ pc = "ground" =>
       \A k \in 1 .. Len(laser_cloud_in) :
         ~BucketInRange(laser_cloud_in[k]) => k \notin used.wrote

Unlabeled0 == {c \in Cells : label_mat[c] # -1}

\* a and b are 4-adjacent, the column wrapping, and pass the admission test.
Admissible(a, b) ==
  /\ \/ /\ a[1] = b[1]
        /\ b[2] \in {(a[2] + 1) % HORIZON_SCAN,
                      (a[2] + HORIZON_SCAN - 1) % HORIZON_SCAN}
     \/ /\ a[2] = b[2]
        /\ b[1] \in {a[1] + 1, a[1] - 1}
  /\ AngleAboveTheta(range_mat[a], range_mat[b], a[1] = b[1])

\* The cells of U linked to a cell of S by a path of admissible steps in U;
\* F holds the cells of S whose neighbours are still to be looked at.
RECURSIVE LinkedFrom(_, _, _)
LinkedFrom(S, F, U) ==
  LET more == {b \in U \ S : \E a \in F : Admissible(a, b)}
  IN  IF more = {} THEN S ELSE LinkedFrom(S \cup more, more, U)

Linked(S, U) == LinkedFrom(S, S, U)

\* C12: every flood fill visits exactly the cells linked to its seed by a
\* path of admissible steps through cells unlabeled at the start of
\* segmentation, whatever the order of the traversal; at the end every id
\* marks one such component, and no admissible step joins two cells that
\* ended differently.
C12_FillsAreComponents ==
  /\ Filled => FillCells = Linked({fill.seed}, Unlabeled0)
  /\ pc = "assemble" =>
       /\ \A n \in 1 .. (label_count - 1) :
            LET seg == {c \in Cells : label_mat[c] = n}
            IN  /\ seg # {}
                /\ seg = Linked({CHOOSE c \in seg : TRUE}, Unlabeled0)
       /\ \A a \in Unlabeled0, b \in Unlabeled0 :
            Admissible(a, b) => label_mat[a] = label_mat[b]

\* Two accepted segments side by side, one of which was filled across the
\* seam and over more than one row.
C12_Witness ==
  /\ pc = "assemble" /\ label_count >= 3
  /\ \E a \in Cells :
       /\ label_mat[a] = 1
       /\ label_mat[<<a[1], (a[2] + 1) % HORIZON_SCAN>>] = 2
  /\ \E r \in Rows :
       \/ << <<r, 0>>, <<r, HORIZON_SCAN - 1>> >> \in fill.edges
       \/ << <<r, HORIZON_SCAN - 1>>, <<r, 0>> >> \in fill.edges
  /\ Cardinality(FillRows) > 1

\* C13: when GroundRemoval has finished, label_mat is -1 on the cells that
\* are ground-flagged or empty in range_mat and LABEL_INIT on all others;
\* through segmentation the cells holding -1 stay exactly those, so that no
\* ground-flagged cell gets an id or LABEL_INVALID.
C13_GroundAndEmptyExcluded ==
  /\ (pc = "label" /\ fill.pushed = << >>) =>
       \A cell \in Cells :
         label_mat[cell] = IF ground_mat[cell] = 1 \/ range_mat[cell] = FLT_MAX
                             THEN -1 ELSE LABEL_INIT
  /\ GroundDone =>
       \A cell \in Cells :
         label_mat[cell] = -1
           <=> (ground_mat[cell] = 1 \/ range_mat[cell] = FLT_MAX)

\* A frame with ground cells and empty cells on which a flood fill has run.
C13_Witness ==
  /\ Filled
  /\ \E cell \in Cells : ground_mat[cell] = 1 /\ label_mat[cell] = -1
  /\ \E cell \in Cells : range_mat[cell] = FLT_MAX /\ ground_mat[cell] # 1
  /\ \E cell \in Cells : label_mat[cell] > 0

\* The cell of linear index k.
CellOf(k) == <<k \div HORIZON_SCAN, k % HORIZON_SCAN>>

\* The cell of index k belongs in segmented_cloud: it carries the id of an
\* accepted segment, or it is ground-flagged in a column that is a multiple
\* of 5 or lies within 5 columns of either end of the sweep.
InSegmented(k) ==
  LET cell == CellOf(k)
      j == cell[2]
  IN  \/ label_mat[cell] > 0 /\ label_mat[cell] # LABEL_INVALID
      \/ /\ ground_mat[cell] = 1
         /\ (j % 5 = 0 \/ j <= 5 \/ j >= HORIZON_SCAN - 5)

\* The indices of the cells in row-major order.
RowMajor == [n \in 1 .. (N_SCAN * HORIZON_SCAN) |-> n - 1]

InOutlier(k) ==
  LET cell == CellOf(k)
  IN  /\ label_mat[cell] = LABEL_INVALID
      /\ cell[1] > groundScanInd
      /\ cell[2] % 5 = 0

\* The point of cell k is in cloud, whatever intensity the cloud gave it.
PointOfCellIn(k, cloud) ==
  \E n \in 1 .. Len(cloud) :
    [cloud[n] EXCEPT !.intensity = full_cloud[k].intensity] = full_cloud[k]

\* C15: after assembly outlier_cloud is the row-major list of the
\* LABEL_INVALID cells on rows above groundScanInd in columns that are
\* multiples of 5; a LABEL_INVALID cell is in neither segmented_cloud nor
\* segmented_cloud_pure, and in outlier_cloud only if it is one of those.
C15_OutlierCloudContents ==
  Assembled =>
    LET expected == SelectSeq(RowMajor, InOutlier)
    IN  /\ Len(outlier_cloud) = Len(expected)
        /\ \A n \in 1 .. Len(expected) :
             LET k == expected[n]
             IN  /\ outlier_cloud[n] = full_cloud[k]
                 /\ full_cloud[k].intensity
                      = EncodeIntensity(CellOf(k)[1], CellOf(k)[2])
        /\ \A k \in Indices :
             label_mat[CellOf(k)] = LABEL_INVALID =>
               /\ ~IsNaN(full_cloud[k])
               /\ ~PointOfCellIn(k, segmented_cloud)
               /\ ~PointOfCellIn(k, segmented_cloud_pure)
               /\ ~InOutlier(k) => ~PointOfCellIn(k, outlier_cloud)

\* A rejected cluster with a cell sampled into outlier_cloud, a cell in a
\* sampled column on a ground-candidate row and a cell above them in a
\* column that is not sampled, next to an accepted segment.
C15_Witness ==
  /\ Assembled /\ outlier_cloud # << >> /\ segmented_cloud_pure # << >>
  /\ \E k \in Indices :
       /\ label_mat[CellOf(k)] = LABEL_INVALID
       /\ CellOf(k)[1] <= groundScanInd /\ CellOf(k)[2] % 5 = 0
  /\ \E k \in Indices :
       /\ label_mat[CellOf(k)] = LABEL_INVALID
       /\ CellOf(k)[1] > groundScanInd /\ CellOf(k)[2] % 5 # 0

\* C16: a call of LabelComponents changes label_mat only on cells that were
\* LABEL_INIT when it started, which are the cells it pushed, and leaves
\* range_mat and ground_mat as they were.
C16_FillWritesOnlyUnlabeled ==
  [][(pc = "label" /\ pc' = "label") =>
       /\ \A cell \in Cells :
            label_mat'[cell] # label_mat[cell] =>
              /\ label_mat[cell] = LABEL_INIT
              /\ \E k \in 1 .. Len(fill'.pushed) : fill'.pushed[k] = cell
       /\ range_mat' = range_mat
       /\ ground_mat' = ground_mat]_vars

\* A rejected fill ended next to ground cells, a segment accepted before it
\* and a cluster rejected before it.
C16_Witness ==
  /\ Filled /\ ~fill.feasible_segment
  /\ \E cell \in Cells : fill.before[cell] = -1 /\ ground_mat[cell] = 1
  /\ \E cell \in Cells : fill.before[cell] \in 1 .. (label_count - 1)
  /\ \E cell \in Cells : fill.before[cell] = LABEL_INVALID

\* The ids of accepted segments present in label_mat.
IdsPresent ==
  {label_mat[c] : c \in {x \in Cells : label_mat[x] > 0
                                        /\ label_mat[x] # LABEL_INVALID}}

\* The row-major position of the first cell carrying id n.
FirstCellOf(n) ==
  CHOOSE k \in Indices :
    /\ label_mat[CellOf(k)] = n
    /\ \A m \in 0 .. (k - 1) : label_mat[CellOf(m)] # n

\* C17: after every flood fill and at the end of segmentation the ids in
\* label_mat are exactly 1 .. label_count - 1, so a rejected cluster keeps
\* none; they ascend with the row-major position of the segment's first
\* cell, its seed; and every id is below LABEL_INVALID.
C17_IdsConsecutive ==
  (pc \in {"label", "assemble", "publish", "reset"}) =>
    /\ IdsPresent = 1 .. (label_count - 1)
    /\ \A a \in IdsPresent, b \in IdsPresent :
         a < b => FirstCellOf(a) < FirstCellOf(b)
    /\ Filled /\ fill.feasible_segment =>
         /\ fill.label = label_count - 1
         /\ FirstCellOf(fill.label) = fill.seed[2] + fill.seed[1] * HORIZON_SCAN
    /\ Filled /\ ~fill.feasible_segment =>
         /\ fill.label = label_count
         /\ \A c \in FillCells : label_mat[c] = LABEL_INVALID
    /\ label_count - 1 < LABEL_INVALID

\* Segmentation ended with two accepted segments, the first of which took
\* the id a cluster rejected before it had been given.
C17_Witness ==
  /\ Labeled /\ label_count = 3
  /\ \E k \in Indices :
       /\ label_mat[CellOf(k)] = LABEL_INVALID
       /\ k < FirstCellOf(1) /\ FirstCellOf(1) < FirstCellOf(2)

\* The cells point p is bucketed into by the conversion of some build.
PlacesOf(p) ==
  {<<RowIdn(p, use_cloud_ring, conv), ColumnIdn(p, conv)>> :
     conv \in Conversions} \cap Cells

\* The pairs <<n, cell>> of a written point, by its position in
\* laser_cloud_in, and a cell it is bucketed into.
Written ==
  UNION {{<<n, cell>> : cell \in PlacesOf(laser_cloud_in[n])} :
           n \in used.wrote}

\* The positions of the points written into cell, from such pairs.
WritersOf(written, cell) == {n \in used.wrote : <<n, cell>> \in written}

MaxOf(S) == CHOOSE x \in S : \A y \in S : y <= x

\* C18: after ProjectPointCloud range_mat is FLT_MAX on a cell exactly when
\* full_cloud holds nan_point at its index and exactly when full_info_cloud
\* does; a point is written exactly when its buckets are in the grid and its
\* range is at least the minimum; and a non-empty cell holds in all three
\* stores the last point of the input written to it, with the range as
\* full_info_cloud's intensity.
C18_StoresAgree ==
  /\ pc \in {"ground", "label", "assemble", "publish", "reset"} =>
       \A cell \in Cells :
         LET k == cell[2] + cell[1] * HORIZON_SCAN
         IN  /\ (range_mat[cell] = FLT_MAX) <=> IsNaN(full_cloud[k])
             /\ (range_mat[cell] = FLT_MAX) <=> IsNaN(full_info_cloud[k])
             /\ ~IsNaN(full_info_cloud[k]) =>
                  /\ full_info_cloud[k].intensity = range_mat[cell]
                  /\ [full_info_cloud[k] EXCEPT
                        !.intensity = full_cloud[k].intensity] = full_cloud[k]
  /\ pc = "ground" =>
       LET written == Written
       IN
       /\ \A n \in 1 .. Len(laser_cloud_in) :
            LET p == laser_cloud_in[n]
                far == RangeSq(p) >= sensor_minimum_range * sensor_minimum_range
            IN  /\ n \in used.wrote => far /\ PlacesOf(p) # {}
                /\ BucketInRange(p) /\ far => n \in used.wrote
       /\ \A cell \in Cells :
            LET k == cell[2] + cell[1] * HORIZON_SCAN
                W == WritersOf(written, cell)
            IN  /\ (range_mat[cell] = FLT_MAX) <=> (W = {})
                /\ W # {} =>
                     LET p == laser_cloud_in[MaxOf(W)]
                     IN  /\ range_mat[cell] = RangeSq(p)
                         /\ full_cloud[k] =
                              [p EXCEPT !.intensity =
                                          EncodeIntensity(cell[1], cell[2])]
                         /\ full_info_cloud[k] =
                              [p EXCEPT !.intensity = RangeSq(p)]

\* A frame with two points in one cell, the later of which is stored and
\* differs in range from the earlier, and with an empty cell.
C18_Witness ==
  /\ pc = "ground"
  /\ \E cell \in Cells : range_mat[cell] = FLT_MAX
  /\ LET written == Written
     IN  \E cell \in Cells :
           /\ Cardinality(WritersOf(written, cell)) = 2
           /\ \E n \in WritersOf(written, cell) :
                RangeSq(laser_cloud_in[n]) # range_mat[cell]

=============================================================================
